---- MODULE Spec2Model ----
(***************************************************************************)
(* The tool-invocation lifecycle of the chat agent: history sanitizer,     *)
(* approval-gated executor, step loop (streamText with stepCountIs) and    *)
(* the tool registry of tools.ts, as one state machine per conversation.   *)
(***************************************************************************)
EXTENDS Integers, Sequences, FiniteSets, TLC

\* ------------------------------------------------------------------ bounds
MaxCalls == 2
MaxUserMsgs == 2
MaxCallsPerStep == 2
SanMaxParts == 3
MaxExecs == 2
MaxFaultCalls == 1
PassMaxParts == 3
MaxTasks == 2

\* ------------------------------------------------------- program constants
StepBudget == 10

VARIABLES
  messages,   \* this.messages: the persisted history of the conversation
  work,       \* the history the running turn works on (processedMessages + response)
  decisions,  \* toolCallId -> "NONE" | "APPROVED" | "REJECTED"
  execLog,    \* every executor invocation, in order
  loop,       \* position of the turn: IDLE, GENERATING, TOOL_PENDING, DONE, ABORTED
              \* (RAW, SANITIZED, RESANITIZED in SpecSan)
  steps,      \* model invocations of the running turn
  nextId,     \* next fresh toolCallId
  userMsgs,   \* user messages sent so far
  stream,     \* the events written to the response stream of the latest turn
  abortedCalls, \* toolCallIds left pending by a turn whose client had gone away
  flagged     \* the conversation is flagged inconsistent

vars == <<messages, work, decisions, execLog, loop, steps, nextId, userMsgs, stream,
          abortedCalls, flagged>>

\* ------------------------------------------------------------ tool registry
ToolNames ==
  {"getWeatherInformation", "getLocalTime", "scheduleTask",
   "getScheduledTasks", "cancelScheduledTask", "createCalendarEvent"}

Inputs == {"a", "b"}
Envs == {"ok", "fail"}

NoOutput == <<"none", "-">>
CancellationMarker == <<"cancelled", "-">>
\* the result of an executor whose exception escapes it
Thrown == <<"thrown", "-">>

\* faulty variants of HasExecute: every tool given an execute function;
\* createCalendarEvent given one too; the execute of getLocalTime left out
HasExecuteAll(toolName) == TRUE
HasExecuteCalendar(toolName) ==
  toolName \in {"getLocalTime", "scheduleTask", "getScheduledTasks",
                "cancelScheduledTask", "createCalendarEvent"}
HasExecuteForgotten(toolName) ==
  toolName \in {"scheduleTask", "getScheduledTasks", "cancelScheduledTask"}
\* a tool of tools.ts carries an execute function
HasExecute(toolName) ==
  toolName \in {"getLocalTime", "scheduleTask", "getScheduledTasks", "cancelScheduledTask"}

\* the tool has an entry in `executions`: it needs human confirmation
RequiresApproval(toolName) ==
  toolName \in {"getWeatherInformation", "createCalendarEvent"}

\* faulty variant of ToolExecute: scheduleTask without its try / catch
ToolExecuteUncaught(toolName, input, env) ==
  CASE toolName = "getLocalTime" -> <<"10am", "-">>
    [] toolName = "scheduleTask" ->
         IF env = "ok" THEN <<"Task scheduled", input>> ELSE Thrown
    [] toolName = "getScheduledTasks" ->
         IF env = "ok" THEN <<"tasks", "-">>
                       ELSE <<"Error listing scheduled tasks", "-">>
    [] toolName = "cancelScheduledTask" ->
         IF env = "ok" THEN <<"canceled", input>>
                       ELSE <<"Error canceling task", input>>
    [] OTHER -> <<"Error: No execute function found on tool", "-">>
\* the execute function of an autonomous tool; env is the outside world
\* (agent.schedule / getSchedules / cancelSchedule succeeding or throwing)
ToolExecute(toolName, input, env) ==
  CASE toolName = "getLocalTime" -> <<"10am", "-">>
    [] toolName = "scheduleTask" ->
         IF env = "ok" THEN <<"Task scheduled", input>>
                       ELSE <<"Error scheduling task", "-">>
    [] toolName = "getScheduledTasks" ->
         IF env = "ok" THEN <<"tasks", "-">>
                       ELSE <<"Error listing scheduled tasks", "-">>
    [] toolName = "cancelScheduledTask" ->
         IF env = "ok" THEN <<"canceled", input>>
                       ELSE <<"Error canceling task", input>>
    [] OTHER -> <<"Error: No execute function found on tool", "-">>

\* executions[toolName](input): the executor of a confirmed tool
executions(toolName, input, env) ==
  CASE toolName = "getWeatherInformation" -> <<"sunny", input>>
    [] toolName = "createCalendarEvent" ->
         IF env = "ok" THEN <<"created", input>>
                       ELSE <<"Failed to create calendar event", "-">>
    [] OTHER -> ToolExecute(toolName, input, env)

\* ------------------------------------------------------------------- parts
TextPart ==
  [type |-> "text", toolCallId |-> 0, toolName |-> "-", state |-> "-",
   input |-> "-", output |-> NoOutput]
StepStartPart ==
  [type |-> "step-start", toolCallId |-> 0, toolName |-> "-", state |-> "-",
   input |-> "-", output |-> NoOutput]
ToolPart(id, toolName, state, input, output) ==
  [type |-> "tool", toolCallId |-> id, toolName |-> toolName, state |-> state,
   input |-> input, output |-> output]

IsTool(p) == p.type = "tool"
NonTerminal(p) == IsTool(p) /\ p.state \in {"input-streaming", "input-available"}
Meaningful(p) == p.type # "step-start"

Message(role, parts) == [role |-> role, parts |-> parts]

\* all parts of a history, in document order
RECURSIVE Flatten(_)
Flatten(H) == IF H = <<>> THEN <<>> ELSE Head(H).parts \o Flatten(Tail(H))

ToolPartsOf(H) ==
  LET flat == Flatten(H)
  IN {flat[i] : i \in {j \in 1..Len(flat) : IsTool(flat[j])}}
PendingOf(H) == {p \in ToolPartsOf(H) : NonTerminal(p)}

\* ------------------------------------------------------ History Sanitizer
\* index of the last meaningful part of a part list, 0 when there is none
LastMeaningful(parts) ==
  LET idx == {k \in 1..Len(parts) : Meaningful(parts[k])}
  IN IF idx = {} THEN 0 ELSE CHOOSE k \in idx : \A j \in idx : j <= k

\* the single outstanding approval candidate: last meaningful part of the last message
IsCandidate(H, m, k) == m = Len(H) /\ k = LastMeaningful(H[m].parts)

\* faulty variants of KeepPart: only the first offending part is dropped; the
\* last meaningful part of every message is spared
KeepPartFirstOnly(H, m, k) ==
  \/ ~NonTerminal(H[m].parts[k])
  \/ IsCandidate(H, m, k)
  \/ \E m2 \in 1..Len(H) : \E k2 \in 1..Len(H[m2].parts) :
       /\ (m2 < m \/ (m2 = m /\ k2 < k))
       /\ NonTerminal(H[m2].parts[k2]) /\ ~IsCandidate(H, m2, k2)
KeepPartAnyLast(H, m, k) ==
  ~NonTerminal(H[m].parts[k]) \/ k = LastMeaningful(H[m].parts)
\* the rule: a non-terminal invocation is kept only when it is the candidate
KeepPart(H, m, k) == ~NonTerminal(H[m].parts[k]) \/ IsCandidate(H, m, k)

RECURSIVE PartsFrom(_, _, _)
PartsFrom(H, m, k) ==
  IF k > Len(H[m].parts) THEN <<>>
  ELSE (IF KeepPart(H, m, k) THEN <<H[m].parts[k]>> ELSE <<>>) \o PartsFrom(H, m, k + 1)

cleanupMessages(H) ==
  LET pruned == [m \in 1..Len(H) |-> [H[m] EXCEPT !.parts = PartsFrom(H, m, 1)]]
  IN SelectSeq(pruned, LAMBDA msg : msg.parts # <<>>)

\* ------------------------------------------------ Approval-Gated Executor
\* the ApprovalDecision recorded for a call, "NONE" when there is none
DecisionOf(dec, id) == IF id \in DOMAIN dec THEN dec[id] ELSE "NONE"

LogEntry(p, result, via) ==
  [toolCallId |-> p.toolCallId, toolName |-> p.toolName, input |-> p.input,
   result |-> result, via |-> via]

\* the pass turns an executor failure into a formatted error string
Caught(result) == IF result = Thrown THEN <<"Error executing tool", "-">> ELSE result

Resolve(H, m, k, output) ==
  [H EXCEPT ![m].parts[k].state = "output-available", ![m].parts[k].output = output]

\* faulty variant of Unresolved: parts that already carry an output are taken too
UnresolvedAny(p) == IsTool(p) /\ p.state \in {"input-available", "output-available"}
\* the parts a pass acts on: input-available with no output
Unresolved(p) == IsTool(p) /\ p.state = "input-available" /\ p.output = NoOutput

\* faulty variant of ProcessFrom: the pass goes on after it has resolved a call
RECURSIVE ProcessFromAll(_, _, _, _, _, _)
ProcessFromAll(H, m, k, dec, env, log) ==
  IF m > Len(H) THEN [messages |-> H, log |-> log]
  ELSE IF k > Len(H[m].parts) THEN ProcessFromAll(H, m + 1, 1, dec, env, log)
  ELSE LET p == H[m].parts[k] IN
    IF ~Unresolved(p)
      THEN ProcessFromAll(H, m, k + 1, dec, env, log)
    ELSE IF ~RequiresApproval(p.toolName)
      THEN LET r == Caught(ToolExecute(p.toolName, p.input, env))
           IN ProcessFromAll(Resolve(H, m, k, r), m, k + 1, dec, env,
                             Append(log, LogEntry(p, r, "pass")))
    ELSE IF DecisionOf(dec, p.toolCallId) = "REJECTED"
      THEN ProcessFromAll(Resolve(H, m, k, CancellationMarker), m, k + 1, dec, env, log)
    ELSE IF DecisionOf(dec, p.toolCallId) = "APPROVED"
      THEN LET r == Caught(executions(p.toolName, p.input, env))
           IN ProcessFromAll(Resolve(H, m, k, r), m, k + 1, dec, env,
                             Append(log, LogEntry(p, r, "pass")))
    ELSE [messages |-> H, log |-> log]

\* document order: message order, then part order; parts that carry an output
\* are passed over, and the pass ends at the earliest unresolved call, which it
\* resolves unless it is a confirmed call without a decision; log collects the
\* executor invocations
RECURSIVE ProcessFrom(_, _, _, _, _, _)
ProcessFrom(H, m, k, dec, env, log) ==
  IF m > Len(H) THEN [messages |-> H, log |-> log]
  ELSE IF k > Len(H[m].parts) THEN ProcessFrom(H, m + 1, 1, dec, env, log)
  ELSE LET p == H[m].parts[k] IN
    IF ~Unresolved(p)
      THEN ProcessFrom(H, m, k + 1, dec, env, log)
    ELSE IF ~RequiresApproval(p.toolName)
      THEN LET r == Caught(ToolExecute(p.toolName, p.input, env))
           IN [messages |-> Resolve(H, m, k, r),
               log |-> Append(log, LogEntry(p, r, "pass"))]
    ELSE IF DecisionOf(dec, p.toolCallId) = "REJECTED"
      THEN [messages |-> Resolve(H, m, k, CancellationMarker), log |-> log]
    ELSE IF DecisionOf(dec, p.toolCallId) = "APPROVED"
      THEN LET r == Caught(executions(p.toolName, p.input, env))
           IN [messages |-> Resolve(H, m, k, r),
               log |-> Append(log, LogEntry(p, r, "pass"))]
    ELSE [messages |-> H, log |-> log]

processToolCalls(H, dec, env) == ProcessFrom(H, 1, 1, dec, env, <<>>)

\* ------------------------------------------------------- Streaming Emitter
Event(kind, id, output) == [kind |-> kind, toolCallId |-> id, output |-> output]

\* the result deltas of a pass, one per part it resolved, in document order
PassDeltas(before, after) ==
  LET f0 == Flatten(before)
      f1 == Flatten(after)
      idx == SelectSeq([i \in 1..Len(f1) |-> i], LAMBDA i : f0[i] # f1[i])
  IN [j \in 1..Len(idx) |->
        Event("tool-output", f1[idx[j]].toolCallId, f1[idx[j]].output)]

\* the events of one step, in generation order: the step opens, its text, the
\* proposed calls, then the results of the calls that were executed
StepEvents(newParts) ==
  LET tools == SelectSeq(newParts, IsTool)
      done == SelectSeq(tools, LAMBDA p : p.state # "input-available")
  IN <<Event("start-step", 0, NoOutput)>>
     \o (IF \E k \in 1..Len(newParts) : newParts[k].type = "text"
           THEN <<Event("text", 0, NoOutput)>> ELSE <<>>)
     \o [i \in 1..Len(tools) |-> Event("tool-input", tools[i].toolCallId, NoOutput)]
     \o [i \in 1..Len(done) |-> Event("tool-output", done[i].toolCallId, done[i].output)]

\* faulty variant of Merge: the merged events overtake what was written before
MergeFront(written, events) == events \o written
\* writer.merge(result.toUIMessageStream())
Merge(written, events) == written \o events

\* ToolInvocationCard: the Approve / Reject buttons are rendered
ApprovalControlsShown(p) ==
  IsTool(p) /\ RequiresApproval(p.toolName) /\ p.state = "input-available"

\* ----------------------------------------------------- Chat.onChatMessage
\* faulty variant of CleanedInput: the history is used as stored
CleanedInputRaw(msgs) == msgs
\* const cleanedMessages = cleanupMessages(this.messages)
CleanedInput(msgs) == cleanupMessages(msgs)

\* faulty variant of ModelInput: the unprocessed history goes on
ModelInputCleaned(cleaned, processed) == cleaned
\* messages: convertToModelMessages(processedMessages)
ModelInput(cleaned, processed) == processed

\* faulty variant of stepCountIs: one step too many
stepCountIsOffByOne(n, count) == count = n + 1
\* stopWhen: stepCountIs(10)
stepCountIs(n, count) == count = n

\* faulty variant of OnChatMessage: pending tool calls are not processed
OnChatMessageNoPass(msgs, dec, env) ==
  /\ work' = CleanedInput(msgs)
  /\ execLog' = execLog
  /\ stream' = <<>>
  /\ loop' = "GENERATING"
  /\ steps' = 0
\* the prologue of execute: sanitize, then resolve pending tool calls
OnChatMessage(msgs, dec, env) ==
  LET cleaned == CleanedInput(msgs)
      processed == processToolCalls(cleaned, dec, env)
  IN /\ work' = ModelInput(cleaned, processed.messages)
     /\ execLog' = execLog \o processed.log
     /\ stream' = PassDeltas(cleaned, processed.messages)
     /\ loop' = "GENERATING"
     /\ steps' = 0

\* no turn is running: the last one was persisted, or was aborted
AtRest == loop \in {"IDLE", "ABORTED"}

\* InvariantViolation: the request carries a decision for a toolCallId that no
\* invocation of the history has, or the history holds more than one
\* outstanding approval
InvariantViolationNever(H, requested) == FALSE
InvariantViolation(H, requested) ==
  \/ \E id \in DOMAIN requested :
       \A p \in ToolPartsOf(H) : p.toolCallId # id
  \/ Cardinality({p \in ToolPartsOf(H) : ApprovalControlsShown(p)}) > 1

\* the decisions a request may carry: none, or one for a call whose card shows
\* the buttons
RequestDecisions(H) ==
  {<<>>} \cup
  {(p.toolCallId :> v) :
     p \in {q \in ToolPartsOf(H) : ApprovalControlsShown(q)},
     v \in {"APPROVED", "REJECTED"}}

\* a request with a new user message (and possibly a decision)
SendUserMessage ==
  /\ AtRest
  /\ userMsgs < MaxUserMsgs
  /\ \E env \in Envs, dec \in RequestDecisions(messages) :
       /\ decisions' = dec @@ decisions
       /\ messages' = Append(messages, Message("user", <<TextPart>>))
       /\ flagged' = (flagged \/ InvariantViolation(messages, dec))
       /\ OnChatMessage(messages', decisions', env)
  /\ userMsgs' = userMsgs + 1
  /\ UNCHANGED <<nextId, abortedCalls>>

\* a click on Approve / Reject of a tool card: the decision is bound to the call
SubmitDecision ==
  /\ AtRest
  /\ \E p \in ToolPartsOf(messages), v \in {"APPROVED", "REJECTED"}, env \in Envs :
       /\ ApprovalControlsShown(p)
       /\ decisions' = (p.toolCallId :> v) @@ decisions
       /\ flagged' = (flagged \/ InvariantViolation(messages, p.toolCallId :> v))
       /\ OnChatMessage(messages, decisions', env)
  /\ UNCHANGED <<messages, nextId, userMsgs, abortedCalls>>

\* the part a proposed call becomes within its step
\* (an exception that escapes execute makes it an output-error part)
ProposedPart(id, call, env) ==
  IF HasExecute(call.toolName)
    THEN LET r == ToolExecute(call.toolName, call.input, env)
         IN ToolPart(id, call.toolName,
                     IF r = Thrown THEN "output-error" ELSE "output-available",
                     call.input, r)
    ELSE ToolPart(id, call.toolName, "input-available", call.input, NoOutput)

RECURSIVE StepLog(_, _, _)
StepLog(parts, k, log) ==
  IF k > Len(parts) THEN log
  ELSE StepLog(parts, k + 1,
               IF HasExecute(parts[k].toolName)
                 THEN Append(log, LogEntry(parts[k], parts[k].output, "step"))
                 ELSE log)

\* faulty variant of LoopAfter: a call without execute does not stop the loop
LoopAfterNoPause(calls, count) ==
  IF calls = <<>> \/ stepCountIs(StepBudget, count) THEN "DONE" ELSE "GENERATING"
\* where streamText stands after a step: no call ends the turn, a call without
\* execute leaves the loop, the step budget ends the turn
LoopAfter(calls, count) ==
  IF calls = <<>> THEN "DONE"
  ELSE IF \E i \in 1..Len(calls) : ~HasExecute(calls[i].toolName) THEN "TOOL_PENDING"
  ELSE IF stepCountIs(StepBudget, count) THEN "DONE"
  ELSE "GENERATING"

\* one step of streamText: a model generation, then the execute functions of
\* the proposed tools that have one
Step(text, calls, env) ==
  LET toolParts == [i \in 1..Len(calls) |-> ProposedPart(nextId + i - 1, calls[i], env)]
      newParts == <<StepStartPart>> \o (IF text THEN <<TextPart>> ELSE <<>>) \o toolParts
  IN /\ loop = "GENERATING"
     /\ work' = IF steps = 0
                  THEN Append(work, Message("assistant", newParts))
                  ELSE [work EXCEPT ![Len(work)].parts = @ \o newParts]
     /\ execLog' = StepLog(toolParts, 1, execLog)
     /\ stream' = Merge(stream, StepEvents(newParts))
     /\ steps' = steps + 1
     /\ nextId' = nextId + Len(calls)
     /\ loop' = LoopAfter(calls, steps + 1)
     /\ UNCHANGED <<messages, decisions, userMsgs, abortedCalls, flagged>>

\* what the model may generate in one step: text, or up to MaxCallsPerStep calls
ModelTools == {"getLocalTime", "createCalendarEvent"}
Calls == [toolName : ModelTools, input : Inputs]
Proposals == UNION {[1..n -> Calls] : n \in 0..MaxCallsPerStep}

ModelStep ==
  \E text \in BOOLEAN, calls \in Proposals, env \in Envs :
    /\ nextId + Len(calls) - 1 <= MaxCalls
    /\ text => calls = <<>>
    /\ Step(text, calls, env)

\* onFinish: the turn's history is persisted and the stream closes
Finish ==
  /\ loop \in {"DONE", "TOOL_PENDING"}
  /\ messages' = work
  /\ loop' = "IDLE"
  /\ UNCHANGED <<work, decisions, execLog, steps, nextId, userMsgs, stream,
                 abortedCalls, flagged>>

Init ==
  /\ messages = <<>>
  /\ work = <<>>
  /\ decisions = <<>>
  /\ execLog = <<>>
  /\ loop = "IDLE"
  /\ steps = 0
  /\ nextId = 1
  /\ userMsgs = 0
  /\ stream = <<>>
  /\ abortedCalls = {}
  /\ flagged = FALSE

Next == SendUserMessage \/ SubmitDecision \/ ModelStep \/ Finish

Spec == Init /\ [][Next]_vars

\* ------------------------------------------------------------------------
\* The step loop under a model that proposes a new autonomous call on every
\* generation (one turn of one conversation).
MockStep ==
  \E input \in Inputs :
    Step(FALSE, <<[toolName |-> "getLocalTime", input |-> input]>>, "ok")

LoopRequest == userMsgs = 0 /\ SendUserMessage

NextLoop == LoopRequest \/ MockStep \/ Finish

SpecLoop == Init /\ [][NextLoop]_vars /\ WF_vars(NextLoop)

\* ------------------------------------------------------------------------
\* The agent with turns that fail: the model invocation fails with a transport
\* error, or the client goes away while the turn runs.

\* faulty variant of TransportError: the aborted turn's history is committed
TransportErrorCommits ==
  /\ loop = "GENERATING"
  /\ Len(execLog) < MaxExecs
  /\ loop' = "ABORTED"
  /\ messages' = work
  /\ stream' = Append(stream, Event("error", 0, NoOutput))
  /\ UNCHANGED <<work, decisions, execLog, steps, nextId, userMsgs, abortedCalls, flagged>>
\* streamText fails: onFinish is not called, nothing of the turn is persisted
TransportError ==
  /\ loop = "GENERATING"
  /\ Len(execLog) < MaxExecs
  /\ loop' = "ABORTED"
  /\ stream' = Append(stream, Event("error", 0, NoOutput))
  /\ UNCHANGED <<messages, work, decisions, execLog, steps, nextId, userMsgs,
                 abortedCalls, flagged>>

\* the invocations of the running turn's response that are still pending
PendingProposed ==
  {q \in PendingOf(work) :
     \A p \in ToolPartsOf(messages) : p.toolCallId # q.toolCallId}

\* the client went away after a call was proposed: the abortSignal is not
\* handed to streamText, so the turn ends and is persisted as any other
AbortedFinish ==
  /\ loop \in {"DONE", "TOOL_PENDING"}
  /\ PendingProposed # {}
  /\ messages' = work
  /\ loop' = "IDLE"
  /\ abortedCalls' = abortedCalls \cup {q.toolCallId : q \in PendingProposed}
  /\ UNCHANGED <<work, decisions, execLog, steps, nextId, userMsgs, stream, flagged>>

\* what the model generates here: calls of one autonomous and one confirmed
\* tool, on one input
FaultCalls == [toolName : ModelTools, input : {"a"}]
FaultProposals == UNION {[1..n -> FaultCalls] : n \in 0..MaxCallsPerStep}

FaultStep ==
  \E calls \in FaultProposals, env \in Envs :
    /\ nextId + Len(calls) - 1 <= MaxFaultCalls
    /\ Step(FALSE, calls, env)

NextFault ==
  \/ SendUserMessage
  \/ SubmitDecision
  \/ FaultStep
  \/ Finish
  \/ TransportError
  \/ AbortedFinish

SpecFault == Init /\ [][NextFault]_vars

\* ------------------------------------------------------------------------
\* The agent under a model that proposes the tools whose executors can fail:
\* scheduleTask (agent.schedule throws) and createCalendarEvent (the calendar
\* request throws).
FailingTools == {"scheduleTask", "createCalendarEvent"}
FailingCalls == [toolName : FailingTools, input : {"a"}]
FailingProposals == UNION {[1..n -> FailingCalls] : n \in 0..MaxCallsPerStep}

FailingStep ==
  \E calls \in FailingProposals, env \in Envs :
    /\ nextId + Len(calls) - 1 <= MaxCalls
    /\ Step(FALSE, calls, env)

NextExecFail == SendUserMessage \/ SubmitDecision \/ FailingStep \/ Finish

SpecExecFail == Init /\ [][NextExecFail]_vars

\* ------------------------------------------------------------------------
\* The agent with requests that carry a decision for a toolCallId no invocation
\* has, under a model that proposes confirmed calls.
UnknownId == 0

\* a request with a new user message and a decision for an unknown toolCallId
StaleDecision ==
  /\ AtRest
  /\ userMsgs < MaxUserMsgs
  /\ \E env \in Envs, v \in {"APPROVED", "REJECTED"} :
       /\ decisions' = (UnknownId :> v) @@ decisions
       /\ messages' = Append(messages, Message("user", <<TextPart>>))
       /\ flagged' = (flagged \/ InvariantViolation(messages, UnknownId :> v))
       /\ OnChatMessage(messages', decisions', env)
  /\ userMsgs' = userMsgs + 1
  /\ UNCHANGED <<nextId, abortedCalls>>

ConfirmedCalls == [toolName : {"createCalendarEvent"}, input : {"a"}]
ConfirmedProposals == UNION {[1..n -> ConfirmedCalls] : n \in 0..MaxCallsPerStep}

ConfirmedStep ==
  \E calls \in ConfirmedProposals, env \in Envs :
    /\ nextId + Len(calls) - 1 <= MaxCalls
    /\ Step(FALSE, calls, env)

NextFlag ==
  \/ SendUserMessage
  \/ SubmitDecision
  \/ StaleDecision
  \/ ConfirmedStep
  \/ Finish

SpecFlag == Init /\ [][NextFlag]_vars

\* ------------------------------------------------------------------------
\* The History Sanitizer as a function of an arbitrary history.
SanStates == {"input-streaming", "input-available", "output-available"}
SanTools == {"getLocalTime", "createCalendarEvent"}
PartKinds ==
  {TextPart, StepStartPart} \cup
  {ToolPart(0, t, st, "a", IF st = "output-available" THEN <<"10am", "-">> ELSE NoOutput) :
     t \in SanTools, st \in SanStates}

RoleOf(parts) ==
  IF \A k \in 1..Len(parts) : parts[k].type = "text" THEN "user" ELSE "assistant"

\* the history of the given parts, parts[i] opening a new message when brk[i];
\* toolCallIds are the positions, so they are unique within the history
Group(parts, brk) ==
  LET n == Len(parts)
      numbered == [i \in 1..n |->
                     IF IsTool(parts[i]) THEN [parts[i] EXCEPT !.toolCallId = i]
                     ELSE parts[i]]
      starts == {i \in 1..n : brk[i]}
      EndOf(i) == IF \E j \in starts : j > i
                    THEN (CHOOSE j \in starts : j > i /\ \A l \in starts : l > i => j <= l) - 1
                    ELSE n
      StartAt(k) == CHOOSE i \in starts : Cardinality({j \in starts : j <= i}) = k
  IN [k \in 1..Cardinality(starts) |->
        LET ps == SubSeq(numbered, StartAt(k), EndOf(StartAt(k)))
        IN Message(RoleOf(ps), ps)]

Histories(max) ==
  UNION {{Group(parts, brk) :
            parts \in [1..n -> PartKinds],
            brk \in {b \in [1..n -> BOOLEAN] : n = 0 \/ b[1]}} : n \in 0..max}

InitSan ==
  /\ messages \in Histories(SanMaxParts)
  /\ work = <<>>
  /\ decisions = <<>>
  /\ execLog = <<>>
  /\ loop = "RAW"
  /\ steps = 0
  /\ nextId = 1
  /\ userMsgs = 0
  /\ stream = <<>>
  /\ abortedCalls = {}
  /\ flagged = FALSE

SanitizeOnce ==
  /\ loop = "RAW"
  /\ work' = CleanedInput(messages)
  /\ loop' = "SANITIZED"
  /\ UNCHANGED <<messages, decisions, execLog, steps, nextId, userMsgs, stream,
                 abortedCalls, flagged>>

SanitizeAgain ==
  /\ loop = "SANITIZED"
  /\ work' = CleanedInput(work)
  /\ loop' = "RESANITIZED"
  /\ UNCHANGED <<messages, decisions, execLog, steps, nextId, userMsgs, stream,
                 abortedCalls, flagged>>

NextSan == SanitizeOnce \/ SanitizeAgain

SpecSan == InitSan /\ [][NextSan]_vars

\* ------------------------------------------------------------------------
\* The executor pass as a function of an arbitrary history and arbitrary
\* decisions (histories with several unresolved calls included).
PassKinds ==
  {TextPart,
   ToolPart(0, "getLocalTime", "input-available", "a", NoOutput),
   ToolPart(0, "createCalendarEvent", "input-available", "a", NoOutput),
   ToolPart(0, "createCalendarEvent", "output-available", "a", <<"created", "a">>)}
DecisionValues == {"NONE", "APPROVED", "REJECTED"}

InitPass ==
  /\ \E n \in 0..PassMaxParts :
       /\ messages \in {Group(parts, brk) :
                          parts \in [1..n -> PassKinds],
                          brk \in {b \in [1..n -> BOOLEAN] : n = 0 \/ b[1]}}
       /\ decisions \in [1..n -> DecisionValues]
  /\ work = <<>>
  /\ execLog = <<>>
  /\ loop = "UNPROCESSED"
  /\ steps = 0
  /\ nextId = 1
  /\ userMsgs = 0
  /\ stream = <<>>
  /\ abortedCalls = {}
  /\ flagged = FALSE

RunPass ==
  /\ loop = "UNPROCESSED"
  /\ \E env \in Envs :
       LET processed == processToolCalls(messages, decisions, env)
       IN /\ work' = processed.messages
          /\ execLog' = processed.log
          /\ stream' = PassDeltas(messages, processed.messages)
  /\ loop' = "PROCESSED"
  /\ UNCHANGED <<messages, decisions, steps, nextId, userMsgs, abortedCalls, flagged>>

RunPassAgain ==
  /\ loop = "PROCESSED"
  /\ \E env \in Envs :
       LET processed == processToolCalls(work, decisions, env)
       IN /\ work' = processed.messages
          /\ execLog' = execLog \o processed.log
          /\ stream' = stream \o PassDeltas(work, processed.messages)
  /\ loop' = "REPROCESSED"
  /\ UNCHANGED <<messages, decisions, steps, nextId, userMsgs, abortedCalls, flagged>>

NextPass == RunPass \/ RunPassAgain

SpecPass == InitPass /\ [][NextPass]_vars

\* ------------------------------------------------------------------------
\* scheduleTask.execute as a function of its input and of what agent.schedule
\* does when it is called.
WhenTypes == {"no-schedule", "scheduled", "delayed", "cron"}
WhenValues == {"v1", "v2"}
\* the `when` of scheduleSchema: no-schedule, or a date, a delay or a cron string
Whens ==
  {[type |-> "no-schedule", date |-> "-", delayInSeconds |-> "-", cron |-> "-"]} \cup
  {[type |-> "scheduled", date |-> v, delayInSeconds |-> "-", cron |-> "-"] :
     v \in WhenValues} \cup
  {[type |-> "delayed", date |-> "-", delayInSeconds |-> v, cron |-> "-"] :
     v \in WhenValues} \cup
  {[type |-> "cron", date |-> "-", delayInSeconds |-> "-", cron |-> v] :
     v \in WhenValues}
DueDates == {"none", "d"}
\* agent.schedule returns, throws while it is being called, or returns a
\* promise that rejects later (the call is not awaited)
ScheduleOutcomes == {"ok", "throws", "rejects"}

\* the result of execute: its output, the agent.schedule calls it made, and
\* whether an exception escaped it
scheduleTask(when, dueDate, description, sched) ==
  IF when.type = "no-schedule"
    THEN [output |-> <<"Not a valid schedule input">>, calls |-> <<>>, thrown |-> FALSE]
  ELSE IF when.type \notin {"scheduled", "delayed", "cron"}
    THEN [output |-> Thrown, calls |-> <<>>, thrown |-> TRUE]
  ELSE
    LET input == IF when.type = "scheduled" THEN when.date
                 ELSE IF when.type = "delayed" THEN when.delayInSeconds
                 ELSE when.cron
        taskDescription == IF dueDate # "none" THEN <<description, "(Due:", dueDate>>
                                               ELSE <<description>>
        call == [when |-> input, callback |-> "executeTask",
                 payload |-> taskDescription, outcome |-> sched]
        response == <<"Task scheduled for type", when.type, input>>
    IN IF sched = "throws"
         THEN [output |-> <<"Error scheduling task", "error">>, calls |-> <<call>>,
               thrown |-> FALSE]
         ELSE [output |-> IF dueDate # "none"
                            THEN response \o <<"with due date", dueDate>>
                            ELSE response,
               calls |-> <<call>>, thrown |-> FALSE]

\* work holds the call the model proposed, execLog the result of its execute
InitSchedule ==
  /\ work \in {<<[when |-> w, dueDate |-> d, description |-> t]>> :
                 w \in Whens, d \in DueDates, t \in Inputs}
  /\ messages = <<>>
  /\ decisions = <<>>
  /\ execLog = <<>>
  /\ loop = "CALLED"
  /\ steps = 0
  /\ nextId = 1
  /\ userMsgs = 0
  /\ stream = <<>>
  /\ abortedCalls = {}
  /\ flagged = FALSE

RunScheduleTask ==
  /\ loop = "CALLED"
  /\ \E sched \in ScheduleOutcomes :
       execLog' = <<scheduleTask(work[1].when, work[1].dueDate,
                                 work[1].description, sched)>>
  /\ loop' = "RETURNED"
  /\ UNCHANGED <<messages, work, decisions, steps, nextId, userMsgs, stream,
                 abortedCalls, flagged>>

NextSchedule == RunScheduleTask

SpecSchedule == InitSchedule /\ [][NextSchedule]_vars

\* ------------------------------------------------------------------------
\* The agent with scheduled tasks that fire: the alarm of a task may go off
\* while the conversation is at rest or while a turn waits for the model.
\* the user message of a fired task; its text, "Running scheduled task:
\* <description>", is kept in the input field of the part
TaskMessage(description) ==
  Message("user", <<[TextPart EXCEPT !.input = description]>>)
IsTaskMessage(m) ==
  m.role = "user" /\ Len(m.parts) = 1 /\ m.parts[1].type = "text" /\ m.parts[1].input # "-"
TaskCount(H) == Cardinality({i \in 1..Len(H) : IsTaskMessage(H[i])})

\* executeTask: saveMessages([...this.messages, message])
ExecuteTask ==
  /\ TaskCount(messages) < MaxTasks
  /\ \E description \in Inputs :
       messages' = Append(messages, TaskMessage(description))
  /\ UNCHANGED <<work, decisions, execLog, loop, steps, nextId, userMsgs, stream,
                 abortedCalls, flagged>>

NextTask ==
  \/ SendUserMessage
  \/ SubmitDecision
  \/ FaultStep
  \/ ExecuteTask
  \/ Finish

SpecTask == Init /\ [][NextTask]_vars

\* ======================================================================
\* Properties
\* ======================================================================
Histories2 == {messages, work}
EntriesOf(id) == {i \in 1..Len(execLog) : execLog[i].toolCallId = id}
Confirmed(p) == IsTool(p) /\ RequiresApproval(p.toolName)
\* the executor pass of the running turn has just finished
AfterPass == loop = "GENERATING" /\ steps = 0
\* the input of that pass, and its pending confirmed calls
PassInput == cleanupMessages(messages)
PendingConfirmed == {p \in PendingOf(PassInput) : Confirmed(p)}
InWork(id) == {q \in ToolPartsOf(work) : q.toolCallId = id}

\* C1: a confirmed tool call for which no decision has been recorded is never
\* in state output-available, and its executor has never run, whatever turns
\* and executor passes have run over the history.
C1_UndecidedNeverResolved ==
  \A H \in Histories2 : \A p \in ToolPartsOf(H) :
    (Confirmed(p) /\ DecisionOf(decisions, p.toolCallId) = "NONE")
      => (p.state # "output-available" /\ EntriesOf(p.toolCallId) = {})

\* an executor pass has run over a history holding an undecided confirmed call
C1_Witness ==
  /\ AfterPass
  /\ DOMAIN decisions # {}
  /\ \E p \in ToolPartsOf(work) :
       Confirmed(p) /\ DecisionOf(decisions, p.toolCallId) = "NONE"
         /\ p.state = "input-available"

\* C2: every invocation of a confirmed tool's executor was made by the
\* executor pass, for a call whose recorded decision is APPROVED.
C2_ExecutorOnlyAfterApproval ==
  \A i \in 1..Len(execLog) :
    RequiresApproval(execLog[i].toolName)
      => (execLog[i].via = "pass"
          /\ DecisionOf(decisions, execLog[i].toolCallId) = "APPROVED")

C2_Witness ==
  \E i \in 1..Len(execLog) : RequiresApproval(execLog[i].toolName)

\* C3: when the pass input holds exactly one pending confirmed call C and C's
\* decision is REJECTED, then after the pass C is output-available with the
\* cancellation marker as output and its executor has not been invoked.
C3_RejectedIsCancelled ==
  AfterPass =>
    \A c \in PendingConfirmed :
      (PendingConfirmed = {c} /\ DecisionOf(decisions, c.toolCallId) = "REJECTED")
        => /\ InWork(c.toolCallId) # {}
           /\ \A q \in InWork(c.toolCallId) :
                q.state = "output-available" /\ q.output = CancellationMarker
           /\ EntriesOf(c.toolCallId) = {}

C3_Witness ==
  /\ AfterPass
  /\ \E c \in PendingConfirmed :
       /\ PendingConfirmed = {c}
       /\ DecisionOf(decisions, c.toolCallId) = "REJECTED"
       /\ \E q \in InWork(c.toolCallId) : q.output = CancellationMarker

\* C4: when the pass input holds exactly one pending confirmed call C and C's
\* decision is APPROVED, then after the pass C is output-available, its
\* executor has been invoked exactly once, with C's input, and C's output is
\* the value that invocation returned.
C4_ApprovedIsExecutedOnce ==
  AfterPass =>
    \A c \in PendingConfirmed :
      (PendingConfirmed = {c} /\ DecisionOf(decisions, c.toolCallId) = "APPROVED")
        => /\ InWork(c.toolCallId) # {}
           /\ Cardinality(EntriesOf(c.toolCallId)) = 1
           /\ \A i \in EntriesOf(c.toolCallId) :
                /\ execLog[i].toolName = c.toolName
                /\ execLog[i].input = c.input
                /\ execLog[i].via = "pass"
                /\ execLog[i].result \in {executions(c.toolName, c.input, e) : e \in Envs}
                /\ \A q \in InWork(c.toolCallId) :
                     q.state = "output-available" /\ q.output = execLog[i].result

C4_Witness ==
  /\ AfterPass
  /\ \E c \in PendingConfirmed :
       /\ PendingConfirmed = {c}
       /\ DecisionOf(decisions, c.toolCallId) = "APPROVED"
       /\ c.toolName = "createCalendarEvent"
       /\ \E q \in InWork(c.toolCallId) : q.output = <<"created", c.input>>

\* C5: after an executor pass at most one tool invocation of the history is
\* in a state other than output-available.
C5_AtMostOneUnresolvedAfterPass ==
  AfterPass =>
    Cardinality({p \in ToolPartsOf(work) : p.state # "output-available"}) <= 1

\* the pass ran on a history whose stored form held two unresolved calls
C5_Witness ==
  /\ AfterPass
  /\ Cardinality(PendingOf(messages)) >= 2
  /\ Cardinality(PendingOf(work)) = 1

\* C6: in every reachable state at most one tool invocation of the history is
\* non-terminal, and it is the most recently proposed one.
C6_SingleOutstanding ==
  \A H \in Histories2 :
    /\ Cardinality(PendingOf(H)) <= 1
    /\ \A p \in PendingOf(H) : \A q \in ToolPartsOf(H) : q.toolCallId <= p.toolCallId

\* C7: sanitizing a sanitized history changes nothing:
\* sanitize(sanitize(H)) = sanitize(H) for every history H.
C7_SanitizeIdempotent ==
  loop = "RESANITIZED" => work = cleanupMessages(messages)

\* the sanitizer was applied twice to a history it had to prune
C7_Witness ==
  /\ loop = "RESANITIZED"
  /\ work # messages
  /\ PendingOf(work) # {}

\* the parts of message m that the rule drops: non-terminal, and followed by a
\* meaningful part or by another message
Dropped(H, m, k) ==
  /\ NonTerminal(H[m].parts[k])
  /\ \/ m < Len(H)
     \/ \E j \in (k + 1)..Len(H[m].parts) : Meaningful(H[m].parts[j])
KeptIdx(H, m) == {k \in 1..Len(H[m].parts) : ~Dropped(H, m, k)}
Survivors(H) == {m \in 1..Len(H) : KeptIdx(H, m) # {}}
Nth(S, i) == CHOOSE x \in S : Cardinality({y \in S : y <= x}) = i
Restrict(seq, S) == [i \in 1..Cardinality(S) |-> seq[Nth(S, i)]]

\* C8: the sanitized history holds no non-terminal tool invocation except
\* possibly the last meaningful part of the last message; it holds no empty
\* message; and it is the input with exactly the other non-terminal
\* invocations and the messages they leave empty removed, order kept.
C8_SanitizeRule ==
  loop = "SANITIZED" =>
    /\ \A m \in 1..Len(work) : \A k \in 1..Len(work[m].parts) :
         NonTerminal(work[m].parts[k])
           => (m = Len(work) /\ k = LastMeaningful(work[m].parts))
    /\ \A m \in 1..Len(work) : work[m].parts # <<>>
    /\ Len(work) = Cardinality(Survivors(messages))
    /\ \A i \in 1..Len(work) :
         LET m == Nth(Survivors(messages), i)
         IN /\ work[i].role = messages[m].role
            /\ work[i].parts = Restrict(messages[m].parts, KeptIdx(messages, m))

\* the example: [m1{A input-available}, m2{user text}] loses A (and m1)
C8_Witness ==
  /\ loop = "SANITIZED"
  /\ Len(messages) = 2
  /\ Len(messages[1].parts) = 1
  /\ messages[1].parts[1].state = "input-available"
  /\ messages[2] = Message("user", <<TextPart>>)
  /\ work = <<messages[2]>>

\* C9: under a model that proposes a new autonomous call on every generation
\* the step loop never makes more than StepBudget model invocations, is DONE
\* only after exactly StepBudget of them, and does reach DONE.
C9_LoopStopsAtBudget ==
  /\ [](steps <= StepBudget /\ (loop = "DONE" => steps = StepBudget))
  /\ <>(loop = "DONE")

C9_Witness ==
  /\ loop = "DONE"
  /\ steps = StepBudget
  /\ Cardinality(ToolPartsOf(work)) = StepBudget

\* C10: at the end of every step no autonomous tool invocation is left in
\* input-streaming or input-available: it is output-available with an output.
C10_AutonomousResolvedInStep ==
  \A H \in Histories2 : \A p \in ToolPartsOf(H) :
    ~RequiresApproval(p.toolName)
      => (p.state = "output-available" /\ p.output # NoOutput
          /\ Cardinality(EntriesOf(p.toolCallId)) = 1)

\* a step has proposed an autonomous call and the loop goes on
C10_Witness ==
  /\ loop = "GENERATING"
  /\ steps >= 1
  /\ \E p \in ToolPartsOf(work) :
       ~RequiresApproval(p.toolName) /\ p.state = "output-available"
         /\ p \notin ToolPartsOf(messages)

\* ------------------------------------------------------------------------
StateRank(state) ==
  CASE state = "input-streaming" -> 1
    [] state = "input-available" -> 2
    [] OTHER -> 3

\* every invocation of `before` that is still in `after` has not moved back,
\* and is unchanged when it was output-available
Advances(before, after) ==
  \A p \in ToolPartsOf(before) : \A q \in ToolPartsOf(after) :
    p.toolCallId = q.toolCallId =>
      /\ StateRank(q.state) >= StateRank(p.state)
      /\ p.state = "output-available" => q = p

InTurn == loop \in {"GENERATING", "DONE", "TOOL_PENDING"}
\* the invocations the running turn has proposed
ProposedInTurn ==
  {q \in ToolPartsOf(work) :
     \A p \in ToolPartsOf(messages) : p.toolCallId # q.toolCallId}

\* C12 as stated: whenever the model has been invoked in a turn, every confirmed
\* call that was pending in the history when the turn's request arrived has a
\* decision.
C12_NoModelCallBeforeDecision ==
  (InTurn /\ steps >= 1) =>
    \A p \in ToolPartsOf(messages) :
      (Confirmed(p) /\ p.state = "input-available")
        => DecisionOf(decisions, p.toolCallId) # "NONE"

\* C12, amended: when the model proposes a confirmed call the loop stands at
\* TOOL_PENDING and the turn ends without another model invocation; the model
\* is invoked again only in a turn opened by a later request, with or without
\* a decision for that call.
C12_PausesWithinTurn ==
  /\ [](/\ loop = "GENERATING" => \A q \in ProposedInTurn : ~Confirmed(q)
        /\ (\E q \in ProposedInTurn : Confirmed(q)) => loop \in {"TOOL_PENDING", "IDLE"})
  /\ [][/\ loop = "TOOL_PENDING" => (loop' = "IDLE" /\ steps' = steps /\ messages' = work)
        /\ steps' = steps + 1 => loop = "GENERATING"]_vars

\* a step has proposed a confirmed call and the loop stands at TOOL_PENDING
C12_Witness ==
  /\ loop = "TOOL_PENDING"
  /\ steps >= 1
  /\ \E q \in ProposedInTurn : Confirmed(q) /\ q.state = "input-available"

\* ------------------------------------------------------------------------
\* the calls pending in the stored history that the user has approved
ApprovedPending ==
  {p \in PendingOf(messages) :
     Confirmed(p) /\ DecisionOf(decisions, p.toolCallId) = "APPROVED"}
ResolvedByPass(p) ==
  /\ EntriesOf(p.toolCallId) # {}
  /\ \E q \in InWork(p.toolCallId) :
       /\ q.state = "output-available"
       /\ \E e \in Envs : q.output = executions(p.toolName, p.input, e)
RequestAppendedUserMessage ==
  messages # <<>> /\ messages[Len(messages)].role = "user"

\* C13: after a request that appended a new user message, once the sanitizer
\* and the executor pass have run and before the model is queried, every
\* approved pending call has survived, its executor has run and it is
\* output-available.
C13_ApprovedResolvedAfterUserMessage ==
  (AfterPass /\ RequestAppendedUserMessage) =>
    \A p \in ApprovedPending : ResolvedByPass(p)

\* ------------------------------------------------------------------------
IsFailure(result) ==
  result[1] \in {"Error scheduling task", "Error listing scheduled tasks",
                 "Error canceling task", "Failed to create calendar event",
                 "Error executing tool", "thrown"}
\* the executor invocations of the running turn: their calls are not yet
\* output-available in the stored history
TurnEntries ==
  {i \in 1..Len(execLog) :
     \A p \in ToolPartsOf(messages) :
       p.toolCallId = execLog[i].toolCallId => p.state # "output-available"}
Emitted(ev) == \E j \in 1..Len(stream) : stream[j] = ev
FailedEntries == {i \in 1..Len(execLog) : IsFailure(execLog[i].result)}

\* C14: when the executor of a call fails (an autonomous call in a step, an
\* approved confirmed call in the pass), the call is output-available with the
\* formatted error string as its output, the delta of that result is on the
\* stream of the turn, and the turn goes on: it is not aborted, and it ends
\* only as any turn ends.
C14_ExecutorFailureIsAnOutput ==
  \A i \in FailedEntries :
    LET e == execLog[i] IN
    /\ \E q \in InWork(e.toolCallId) :
         q.state = "output-available" /\ q.output = e.result /\ q.output # Thrown
    /\ (InTurn /\ i \in TurnEntries) =>
         Emitted(Event("tool-output", e.toolCallId, e.result))
    /\ loop # "ABORTED"
    /\ (i \in TurnEntries /\ loop = "DONE" /\ stream[Len(stream)].kind = "tool-output")
         => stepCountIs(StepBudget, steps)

\* scheduleTask has failed in a step and createCalendarEvent has failed in a
\* pass, and the turn of the latter is generating
C14_Witness ==
  /\ loop = "GENERATING"
  /\ \E i \in FailedEntries : execLog[i].via = "step"
  /\ \E i \in FailedEntries : execLog[i].via = "pass" /\ i \in TurnEntries

\* ------------------------------------------------------------------------
\* the history the turn started from is what the prologue makes of the stored
\* history, and at most one response message was added to it
WorkStartsFrom(start) ==
  IF steps = 0 THEN work = start
  ELSE Len(work) = Len(start) + 1 /\ SubSeq(work, 1, Len(start)) = start

\* C15 as stated: after a turn aborted by a transport error the persisted
\* history equals the sanitized snapshot of the turn.
C15_AbortedEqualsSanitized ==
  loop = "ABORTED" => messages = cleanupMessages(messages)

\* C15, amended: a transport error at any step leaves the persisted history as
\* it was stored when the turn began (the request's user message included, the
\* sanitizer's removals not applied): the aborted turn is what the prologue and
\* the steps made of that stored history, and none of it is written.
C15_AbortWritesNothing ==
  /\ [](loop = "ABORTED" =>
          \E e \in Envs :
            WorkStartsFrom(processToolCalls(cleanupMessages(messages), decisions, e).messages))
  /\ [][loop' = "ABORTED" => messages' = messages]_vars

\* a transport error has aborted a turn whose pass had resolved an approved
\* call: the result is in the turn's history and not in the persisted one
C15_Witness ==
  /\ loop = "ABORTED"
  /\ \E p \in ToolPartsOf(messages) :
       /\ p.state = "input-available"
       /\ \E q \in InWork(p.toolCallId) : q.state = "output-available"

\* ------------------------------------------------------------------------
\* C16: an invocation that was proposed in a turn whose client went away stays
\* in the history on every later turn, input-available with no output until a
\* decision resolves it: it is in the persisted history, and in the history of
\* every running turn.
C16_AbortedCallSurvives ==
  \A id \in abortedCalls :
    /\ \E p \in ToolPartsOf(messages) :
         /\ p.toolCallId = id
         /\ p.state = "input-available" => p.output = NoOutput
         /\ p.state = "output-available" => DecisionOf(decisions, id) # "NONE"
    /\ InTurn => InWork(id) # {}

\* ------------------------------------------------------------------------
\* C18: a tool invocation that is in the persisted history is in the persisted
\* history after every transition: no turn removes it.
C18_PartsNeverRemoved ==
  [][\A p \in ToolPartsOf(messages) :
       \E q \in ToolPartsOf(messages') : q.toolCallId = p.toolCallId]_vars

\* ------------------------------------------------------------------------
StoredIds == {p.toolCallId : p \in ToolPartsOf(messages)}
\* the invocations the running turn has moved to output-available
ResolvedInTurn ==
  {q \in ToolPartsOf(work) :
     /\ q.state = "output-available"
     /\ \A p \in ToolPartsOf(messages) :
          p.toolCallId = q.toolCallId => p.state # "output-available"}
Positions(ev) == {j \in 1..Len(stream) : stream[j] = ev}
OfKind(kind) == {j \in 1..Len(stream) : stream[j].kind = kind}
\* the deltas written by the executor pass: results of calls of earlier turns
PassPositions == {j \in OfKind("tool-output") : stream[j].toolCallId \in StoredIds}

StreamComplete ==
  /\ \A q \in ResolvedInTurn :
       Cardinality(Positions(Event("tool-output", q.toolCallId, q.output))) = 1
  /\ \A j \in OfKind("tool-output") :
       \E q \in ResolvedInTurn :
         stream[j] = Event("tool-output", q.toolCallId, q.output)
  /\ \A q \in ProposedInTurn :
       Cardinality(Positions(Event("tool-input", q.toolCallId, NoOutput))) = 1
  /\ \A j \in OfKind("tool-input") :
       \E q \in ProposedInTurn : stream[j].toolCallId = q.toolCallId
  /\ Cardinality(OfKind("start-step")) = steps

StreamOrdered ==
  /\ \A j \in PassPositions : \A k \in 1..Len(stream) :
       k \notin PassPositions => j < k
  /\ \A j, k \in PassPositions :
       j < k => stream[j].toolCallId < stream[k].toolCallId
  /\ \A j, k \in OfKind("tool-input") :
       j < k => stream[j].toolCallId < stream[k].toolCallId
  /\ \A j \in OfKind("tool-input") : \A k \in OfKind("tool-output") :
       stream[j].toolCallId = stream[k].toolCallId => j < k
  /\ \A k \in 1..Len(stream) :
       (k \notin PassPositions /\ \A j \in 1..(k - 1) : j \in PassPositions)
         => stream[k].kind = "start-step"
  /\ \A k \in OfKind("text") : k > 1 /\ stream[k - 1].kind = "start-step"

\* C19: while a turn runs, the stream holds exactly one event for every result
\* and every proposal of the turn, the deltas of the executor pass first and in
\* document order, then the events of each step in generation order (a call's
\* proposal before its result); and once the loop stands at DONE or
\* TOOL_PENDING nothing more is written to the stream.
C19_StreamInGenerationOrder ==
  /\ [](InTurn => (StreamComplete /\ StreamOrdered))
  /\ [][/\ loop \in {"DONE", "TOOL_PENDING"} => stream' = stream
        /\ (loop = "GENERATING" /\ loop' # "IDLE") =>
             (Len(stream') > Len(stream) /\ SubSeq(stream', 1, Len(stream)) = stream)]_vars

\* the stream of a turn holds a delta of the pass, then the proposal of a call
\* of a step, then the result of that call
C19_Witness ==
  /\ InTurn
  /\ \E j \in PassPositions : \E k \in OfKind("tool-input") : \E l \in OfKind("tool-output") :
       j < k /\ k < l /\ stream[k].toolCallId = stream[l].toolCallId

\* ------------------------------------------------------------------------
\* C20: a pass run again on the output of a pass, with the same decisions,
\* changes no part and invokes no executor; and over all passes and turns the
\* executor of a call has been invoked at most once.
C20_PassIdempotentExecutedOnce ==
  /\ AfterPass =>
       \A e \in Envs :
         processToolCalls(work, decisions, e) = [messages |-> work, log |-> <<>>]
  /\ \A id \in 1..(nextId - 1) : Cardinality(EntriesOf(id)) <= 1

\* ------------------------------------------------------------------------
\* positions (document order) of the unresolved calls of the pass input, and
\* of the parts the pass changed
UnresolvedAt == LET f0 == Flatten(messages) IN {i \in 1..Len(f0) : Unresolved(f0[i])}
ResolvedAt ==
  LET f0 == Flatten(messages)
      f1 == Flatten(work)
  IN {i \in 1..Len(f0) : f0[i] # f1[i]}
Resolvable(p) ==
  ~RequiresApproval(p.toolName) \/ DecisionOf(decisions, p.toolCallId) # "NONE"

\* C21: a pass over any history changes at most the earliest unresolved call
\* in document order, and changes it exactly when it is autonomous or has a
\* decision; nothing located after an unresolved call is resolved or executed
\* in that pass, and over successive passes executors run in document order.
C21_PassInDocumentOrder ==
  /\ loop = "PROCESSED" =>
       LET f0 == Flatten(messages) IN
       /\ Len(Flatten(work)) = Len(f0)
       /\ ResolvedAt \subseteq UnresolvedAt
       /\ \A i \in ResolvedAt : \A j \in UnresolvedAt : i <= j
       /\ \A e \in UnresolvedAt :
            (\A j \in UnresolvedAt : e <= j) => (e \in ResolvedAt <=> Resolvable(f0[e]))
       /\ \A i \in 1..Len(execLog) :
            \E r \in ResolvedAt : execLog[i].toolCallId = f0[r].toolCallId
  /\ loop \in {"PROCESSED", "REPROCESSED"} =>
       \A i, j \in 1..Len(execLog) :
         i < j => execLog[i].toolCallId < execLog[j].toolCallId

\* a pass has met several unresolved calls that it could resolve and has
\* resolved the earliest only
C21_Witness ==
  /\ loop = "PROCESSED"
  /\ Cardinality(ResolvedAt) = 1
  /\ Cardinality({i \in UnresolvedAt : Resolvable(Flatten(messages)[i])}) >= 2

\* ------------------------------------------------------------------------
\* C22: whenever the model is about to be invoked (the loop is generating, the
\* turn's history is the model input), no tool invocation of that history is
\* input-streaming or input-available.
C22_ModelInputAllResolved ==
  loop = "GENERATING" => PendingOf(work) = {}

\* ------------------------------------------------------------------------
OutstandingApprovals(H) == {p \in ToolPartsOf(H) : ApprovalControlsShown(p)}
RequestArrives == AtRest /\ loop' = "GENERATING"
\* a decision for the unknown toolCallId is recorded with the request
StaleArrives ==
  /\ RequestArrives
  /\ UnknownId \in DOMAIN decisions'
  /\ UnknownId \in DOMAIN decisions => decisions'[UnknownId] # decisions[UnknownId]

C24_ScheduleTaskNeverThrows ==
  loop = "RETURNED" =>
    LET call == work[1]
        r == execLog[1]
    IN /\ ~r.thrown
       /\ call.when.type = "no-schedule" =>
            (r.calls = <<>> /\ r.output = <<"Not a valid schedule input">>)
       /\ call.when.type # "no-schedule" => Len(r.calls) = 1
       /\ \A i \in 1..Len(r.calls) :
            r.calls[i].outcome # "ok" => r.output[1] = "Error scheduling task"

\* ------------------------------------------------------------------------
\* a scheduled task fires: the stored history changes and the turn, if one is
\* running, stays where it is
TaskFires == messages' # messages /\ UNCHANGED <<work, loop, steps, userMsgs>>

\* C25: a fired task appends exactly one user message behind the stored
\* history, which it keeps as it is, and no step (the end of a turn that was
\* running when the task fired included) takes a task message out of the
\* history.
C25_TaskMessageNeverLost ==
  [][/\ TaskFires => \E description \in Inputs :
                       messages' = Append(messages, TaskMessage(description))
     /\ TaskCount(messages') >= TaskCount(messages)]_vars

\* ------------------------------------------------------------------------
\* this step records a decision for the call: its first, or another one
DecidedNow(id) ==
  /\ id \in DOMAIN decisions'
  /\ id \in DOMAIN decisions => decisions'[id] # decisions[id]

\* C26: a decision is recorded only for a call that requires confirmation and
\* is input-available in the stored history (the card of no other call shows
\* Approve / Reject), a call that has a decision is never given another one,
\* and whenever the card of a call shows the buttons the call has no decision
\* yet.
C26_DecidedAtMostOnce ==
  /\ [][\A id \in DOMAIN decisions' :
          DecidedNow(id) =>
            /\ id \notin DOMAIN decisions
            /\ \E p \in ToolPartsOf(messages) :
                 p.toolCallId = id /\ ApprovalControlsShown(p)]_vars
  /\ [](AtRest =>
          \A p \in ToolPartsOf(messages) :
            ApprovalControlsShown(p) => p.toolCallId \notin DOMAIN decisions)
====
